---- MODULE Spec2Model ----
(***************************************************************************)
(* Model of the pseudo-VPN client (class PseudoVPNClient): endpoint        *)
(* selection by concurrent health probes, session token minting, the       *)
(* connect handshake, the token refresh timer, region switch, disconnect.  *)
(*                                                                         *)
(* Node.js runs the client on one event loop.  An action of this model is  *)
(* one run-to-completion piece of JavaScript: the synchronous part of a    *)
(* method call, or an I/O or timer callback together with the promise      *)
(* continuations it resumes.  Between two awaits nothing else runs.        *)
(***************************************************************************)
EXTENDS Integers, Sequences, FiniteSets, Bags, TLC

VARIABLES
    config,               \* this.config (regions, auth)
    now,                  \* Date.now(), in milliseconds
    currentSession,       \* this.currentSession
    sessionToken,         \* this.sessionToken
    tokenExpiry,          \* this.tokenExpiry, NULL or [ms |-> n]
    tokenRefreshTimeout,  \* this.tokenRefreshTimeout: 0 is undefined, else a timer handle
    timers,               \* the setTimeout callbacks pending in the event loop
    tasks,                \* the connect() calls in flight (a bag: they are unordered)
    settled,              \* history: the promise of a call the last step settled, or NULL
    alive,                \* FALSE once an unhandled rejection has ended the process
    selIn,                \* input of the selection run of SelSpec
    selOut,               \* its output
    probes,               \* the healthCheck calls of one getBestWorker call (ProbeSpec)
    wire,                 \* what generateSessionToken returned, the token as sent (TokenSpec)
    relay,                \* the relay's last call (validateToken, a request) and its answer
    server,               \* a relay: its variant and its session table (RelaySpec)
    bench                 \* a benchmark() run: its results so far and its report (BenchSpec)

vars == <<config, now, currentSession, sessionToken, tokenExpiry,
          tokenRefreshTimeout, timers, tasks, settled, alive, selIn, selOut, probes, wire, relay, server, bench>>

clientVars == <<currentSession, sessionToken, tokenExpiry, tokenRefreshTimeout, timers>>

----------------------------------------------------------------------------
(* Bounds of the model *)

MaxTasks == 1      \* connect() calls in flight at a time
MaxTicks == 1      \* clock steps per behaviour
MaxWorkers == 3    \* endpoints of the region in SelSpec

\* One clock step.  Probe latencies are below one step; they are inputs.
TickMs == 240 * 1000

NULL == [null |-> TRUE]

----------------------------------------------------------------------------
(* Configuration *)

\* region code -> ordered endpoint list (config.regions[c].workers); the
\* regions of Spec have at most one endpoint, SelSpec ranks several
Regions == [US |-> <<"us1">>, EU |-> <<"eu1">>, AP |-> <<>>]

\* config.auth as config.json may give it; the first is the built-in default
AuthConfigs == { [tokenDuration |-> 300, refreshBuffer |-> 60],
                 [tokenDuration |-> 60,  refreshBuffer |-> 60] }

\* the arguments a caller passes as country; "XX" is not configured
CountryArgs == {"US", "EU", "AP", "XX"}

\* healthCheck's default timeout parameter, in ms
HealthTimeout == 5000

\* measured round-trip times a probe may report, in ms
Latencies == {40, 120}

----------------------------------------------------------------------------
(* HealthProbe results *)

\* the values healthCheck(workerUrl) can resolve to
HealthResults(workerUrl) ==
    { [url |-> workerUrl, status |-> s, latency |-> l] :
          s \in {"healthy", "error", "invalid"}, l \in Latencies }
    \cup { [url |-> workerUrl, status |-> "timeout", latency |-> HealthTimeout] }

\* what Promise.all of the probes of a region can resolve to: one result per
\* endpoint, in configuration order (Spec enumerates one measured latency)
HealthChecks(workers) ==
    { [i \in 1..Len(workers) |-> [f[i] EXCEPT !.url = workers[i]]] :
          f \in [1..Len(workers) -> { r \in HealthResults("w") : r.latency # 120 }] }

----------------------------------------------------------------------------
(* EndpointSelector *)

\* the comparator of sort(): (a, b) => a.latency - b.latency
CompareReversed(a, b) == b.latency - a.latency

Compare(a, b) == a.latency - b.latency

\* Array.prototype.sort is stable: x goes after every element that does not
\* compare greater than it
Insert(sorted, x) ==
    LET p == Cardinality({ i \in 1..Len(sorted) : Compare(sorted[i], x) <= 0 })
    IN  SubSeq(sorted, 1, p) \o <<x>> \o SubSeq(sorted, p + 1, Len(sorted))

RECURSIVE SortByLatency(_)
SortByLatency(s) ==
    IF s = <<>> THEN <<>>
    ELSE Insert(SortByLatency(SubSeq(s, 1, Len(s) - 1)), s[Len(s)])

IsHealthy(check) == check.status = "healthy"

\* getBestWorker after the probes have resolved, without the health filter
getBestWorkerUnfiltered(healthChecks) ==
    LET sortedWorkers == SortByLatency(healthChecks)
    IN  IF Len(sortedWorkers) = 0
        THEN [ok |-> FALSE, error |-> "NoHealthyEndpoint"]
        ELSE [ok |-> TRUE, worker |-> sortedWorkers[1]]

\* getBestWorker after Promise.all has resolved to healthChecks
getBestWorker(healthChecks) ==
    LET sortedWorkers == SortByLatency(SelectSeq(healthChecks, IsHealthy))
    IN  IF Len(sortedWorkers) = 0
        THEN [ok |-> FALSE, error |-> "NoHealthyEndpoint"]
        ELSE [ok |-> TRUE, worker |-> sortedWorkers[1]]

----------------------------------------------------------------------------
(* SessionCredential *)

\* crypto.randomUUID(): an id that no Session and no connect() in flight
\* carries (the least such; the held token is replaced by the one minted)
randomUUID ==
    LET used == (IF currentSession = NULL THEN {} ELSE {currentSession.sessionId})
                \cup { t.sessionId : t \in { u \in BagToSet(tasks) : u.pc = "handshake" } }
    IN  CHOOSE n \in 1..(Cardinality(used) + 1) : n \notin used

\* generateSessionToken(country, workerId) at time t with fresh id sid
generateSessionToken(country, workerId, sid, t, cfg) ==
    LET payload == [country   |-> country,
                    workerId  |-> workerId,
                    sessionId |-> sid,
                    issued    |-> t,
                    expires   |-> t + cfg.auth.tokenDuration * 1000]
    IN  [token |-> [header |-> "HS256", payload |-> payload, signature |-> "hmac"],
         payload |-> payload]

----------------------------------------------------------------------------
(* RefreshTimer *)

\* null converts to 0 in JavaScript arithmetic
ToNumber(x) == IF x = NULL THEN 0 ELSE x.ms

\* scheduleTokenRefresh with the refresh buffer left out
RefreshTimeNoBuffer(expiry, t, cfg) == ToNumber(expiry) - t

\* refreshTime of scheduleTokenRefresh
RefreshTime(expiry, t, cfg) ==
    ToNumber(expiry) - t - cfg.auth.refreshBuffer * 1000

\* clearTimeout that leaves the timer pending
ClearTimeoutKeeps(tms, handle) == tms

\* clearTimeout(handle)
ClearTimeout(tms, handle) == { tm \in tms : tm.id # handle }

\* a handle no pending timer has
FreshHandle(tms) ==
    CHOOSE h \in 1..(Cardinality(tms) + 1) : \A tm \in tms : tm.id # h

\* scheduleTokenRefresh(): the pending timers and the stored handle after it
scheduleTokenRefresh(tms, handle, expiry, t, cfg) ==
    LET cleared == IF handle # 0 THEN ClearTimeout(tms, handle) ELSE tms
        refreshTime == RefreshTime(expiry, t, cfg)
        h == FreshHandle(cleared)
    IN  IF refreshTime > 0
        THEN [timers |-> cleared \cup {[id |-> h, fireAt |-> t + refreshTime]},
              handle |-> h]
        ELSE [timers |-> cleared, handle |-> handle]

----------------------------------------------------------------------------
(* Initial state: after the constructor and init() *)

InitClient ==
    /\ config \in { [regions |-> Regions, auth |-> a] : a \in AuthConfigs }
    /\ now = 0
    /\ currentSession = NULL
    /\ sessionToken = NULL
    /\ tokenExpiry = NULL
    /\ tokenRefreshTimeout = 0
    /\ timers = {}
    /\ tasks = EmptyBag
    /\ settled = NULL
    /\ alive = TRUE
    /\ probes = <<>>
    /\ wire = NULL
    /\ relay = NULL
    /\ server = NULL
    /\ bench = NULL

Init ==
    /\ InitClient
    /\ selIn = <<>>
    /\ selOut = NULL

----------------------------------------------------------------------------
(* connect(): the calls and their continuations *)

\* the calls ts without one call t; with one more call t
Remove(ts, t) == ts (-) SetToBag({t})
Add(ts, t) == ts (+) SetToBag({t})

\* history: the client state a step starts from
Before ==
    [session |-> currentSession, token |-> sessionToken, expiry |-> tokenExpiry,
     handle |-> tokenRefreshTimeout, timers |-> timers, inflight |-> BagCardinality(tasks)]

\* what the caller of a connect() call gets when its promise settles: the
\* result; as history, the probe results and the handshake answer the call
\* got, and the client state before the step that settled it
Outcome(task, result, resp, before) ==
    [origin |-> task.origin, country |-> task.country, result |-> result,
     checks |-> task.checks, resp |-> resp, before |-> before]

\* a connect(country) call suspended at await getBestWorker(country), one
\* probe per endpoint sent
NewTask(country, origin) ==
    [origin |-> origin, country |-> country, pc |-> "probing", checks |-> <<>>,
     worker |-> NULL, sessionId |-> 0, superseded |-> FALSE]

\* getBestWorker that does not look the country up before it probes
ThrowsAtOnceUnchecked(country, cfg) ==
    IF country \in DOMAIN cfg.regions /\ cfg.regions[country] = <<>>
    THEN "NoHealthyEndpoint"
    ELSE "no"

\* getBestWorker throws before it awaits a probe
ThrowsAtOnce(country, cfg) ==
    IF country \notin DOMAIN cfg.regions THEN "Unsupported"
    ELSE IF cfg.regions[country] = <<>> THEN "NoHealthyEndpoint"
    ELSE "no"

\* the synchronous part of connect(country), called with the calls ts in
\* flight (fewer than MaxTasks) in the client state before; began is what
\* the step has settled when the call stays in flight
StartConnect(ts, country, origin, before, began) ==
    /\ BagCardinality(ts) < MaxTasks
    /\ IF ThrowsAtOnce(country, config) # "no"
       THEN /\ tasks' = ts
            /\ settled' = Outcome(NewTask(country, origin),
                                  ThrowsAtOnce(country, config), "none", before)
       ELSE /\ tasks' = Add(ts, NewTask(country, origin))
            /\ settled' = began

\* a rejection of the timer callback's promise has no handler: Node either
\* warns and goes on or ends the process, depending on its version
Rejected ==
    IF settled' # NULL /\ settled'.result # "ok" /\ settled'.origin = "timer"
    THEN alive' \in BOOLEAN
    ELSE alive' = alive

\* no connect() call is in flight
Idle == tasks = EmptyBag

\* a client calls connect(country)
Connect(country) ==
    /\ alive
    /\ StartConnect(tasks, country, "caller", Before, NULL)
    /\ UNCHANGED <<config, now, clientVars, alive, selIn, selOut, probes, wire, relay, server, bench>>

\* connect() resumed with the token minted before the selection is known
ConnectAfterProbesMintFirst(t, healthChecks, mintOk) ==
    LET best == getBestWorker(healthChecks)
        url == IF best.ok THEN best.worker.url ELSE healthChecks[1].url
        info == generateSessionToken(t.country, url, randomUUID, now, config)
    IN  /\ mintOk
        /\ sessionToken' = info.token
        /\ tokenExpiry' = [ms |-> info.payload.expires]
        /\ IF best.ok
           THEN /\ tasks' = Add(Remove(tasks, t), [t EXCEPT !.pc = "handshake",
                                 !.checks = healthChecks, !.worker = best.worker,
                                 !.sessionId = info.payload.sessionId])
                /\ settled' = NULL
           ELSE /\ tasks' = Remove(tasks, t)
                /\ settled' = Outcome([t EXCEPT !.checks = healthChecks],
                                      best.error, "none", Before)
        /\ UNCHANGED <<currentSession, tokenRefreshTimeout, timers>>

\* connect() resumed after await getBestWorker: the selection, then the token
\* and POST /connect, or the catch block
ConnectAfterProbes(t, healthChecks, mintOk) ==
    LET best == getBestWorker(healthChecks)
        info == generateSessionToken(t.country, best.worker.url,
                                     randomUUID, now, config)
    IN  IF ~best.ok
        THEN /\ tasks' = Remove(tasks, t)
             /\ settled' = Outcome([t EXCEPT !.checks = healthChecks],
                                   best.error, "none", Before)
             /\ UNCHANGED clientVars
        ELSE IF ~mintOk
        THEN /\ tasks' = Remove(tasks, t)
             /\ settled' = Outcome([t EXCEPT !.checks = healthChecks],
                                   "MintFailed", "none", Before)
             /\ UNCHANGED clientVars
        ELSE /\ sessionToken' = info.token
             /\ tokenExpiry' = [ms |-> info.payload.expires]
             /\ tasks' = Add(Remove(tasks, t), [t EXCEPT !.pc = "handshake",
                              !.checks = healthChecks, !.worker = best.worker,
                              !.sessionId = info.payload.sessionId])
             /\ settled' = NULL
             /\ UNCHANGED <<currentSession, tokenRefreshTimeout, timers>>

\* every probe of connect call t has resolved: Promise.all resolves to
\* healthChecks and connect() resumes
ProbesResolved(t, healthChecks, mintOk) ==
    /\ alive
    /\ t.pc = "probing"
    /\ ConnectAfterProbes(t, healthChecks, mintOk)
    /\ Rejected
    /\ UNCHANGED <<config, now, selIn, selOut, probes, wire, relay, server, bench>>

\* the answers POST /connect can get
HandshakeResponses == {"ok200", "non200", "badBody", "netError"}

\* establishConnection resolves whatever the status code is
HandshakeOkAnyStatus(resp) == resp \in {"ok200", "non200"}

\* establishConnection resolves: status 200 and a body JSON.parse accepts
HandshakeOk(resp) == resp = "ok200"

\* connect() that calls itself again when its handshake fails
HandshakeReplyRetries(t, resp) ==
    /\ alive
    /\ t.pc = "handshake"
    /\ IF HandshakeOk(resp)
       THEN LET session == [country     |-> t.country,
                            worker      |-> t.worker,
                            sessionId   |-> t.sessionId,
                            connectedAt |-> now]
                sched == scheduleTokenRefresh(timers, tokenRefreshTimeout,
                                              tokenExpiry, now, config)
            IN  /\ tasks' = Remove(tasks, t)
                /\ currentSession' = session
                /\ timers' = sched.timers
                /\ tokenRefreshTimeout' = sched.handle
                /\ settled' = Outcome(t, "ok", resp, Before)
       ELSE /\ tasks' = Add(Remove(tasks, t), NewTask(t.country, t.origin))
            /\ settled' = Outcome(t, "HandshakeFailed", resp, Before)
            /\ UNCHANGED <<currentSession, timers, tokenRefreshTimeout>>
    /\ Rejected
    /\ UNCHANGED <<config, now, sessionToken, tokenExpiry, selIn, selOut, probes, wire, relay, server, bench>>

\* the answer to POST /connect of call t arrives and resumes connect()
HandshakeReply(t, resp) ==
    /\ alive
    /\ t.pc = "handshake"
    /\ tasks' = Remove(tasks, t)
    /\ IF HandshakeOk(resp)
       THEN LET session == [country     |-> t.country,
                            worker      |-> t.worker,
                            sessionId   |-> t.sessionId,
                            connectedAt |-> now]
                sched == scheduleTokenRefresh(timers, tokenRefreshTimeout,
                                              tokenExpiry, now, config)
            IN  /\ currentSession' = session
                /\ timers' = sched.timers
                /\ tokenRefreshTimeout' = sched.handle
                /\ settled' = Outcome(t, "ok", resp, Before)
       ELSE /\ settled' = Outcome(t, "HandshakeFailed", resp, Before)
            /\ UNCHANGED <<currentSession, timers, tokenRefreshTimeout>>
    /\ Rejected
    /\ UNCHANGED <<config, now, sessionToken, tokenExpiry, selIn, selOut, probes, wire, relay, server, bench>>

----------------------------------------------------------------------------
(* refreshToken(), the timer callback, disconnect(), switchCountry() *)

\* refreshToken() with a Session held and the mint succeeding: the new token
\* replaces the held one and the timer is scheduled again (tms: pending timers)
RefreshMinted(tms) ==
    LET info == generateSessionToken(currentSession.country, currentSession.worker.url,
                                     randomUUID, now, config)
        sched == scheduleTokenRefresh(tms, tokenRefreshTimeout,
                                      [ms |-> info.payload.expires], now, config)
    IN  /\ sessionToken' = info.token
        /\ tokenExpiry' = [ms |-> info.payload.expires]
        /\ timers' = sched.timers
        /\ tokenRefreshTimeout' = sched.handle
        /\ UNCHANGED currentSession

\* what the caller of refreshToken() gets when its promise settles; as
\* history, the client state before the call
RefreshOutcome(result, before) ==
    [origin |-> "caller",
     country |-> IF currentSession = NULL THEN "none" ELSE currentSession.country,
     result |-> result, checks |-> <<>>, resp |-> "none", before |-> before]

\* refreshToken() that goes on without a Session
RefreshTokenUnguarded(mintOk) ==
    /\ alive
    /\ IF mintOk
       THEN /\ sessionToken' = [header |-> "HS256", payload |-> [issued |-> now],
                                signature |-> "hmac"]
            /\ tokenExpiry' = [ms |-> now + config.auth.tokenDuration * 1000]
            /\ UNCHANGED <<currentSession, tokenRefreshTimeout, timers>>
            /\ settled' = RefreshOutcome("Refreshed", Before)
       ELSE /\ UNCHANGED clientVars
            /\ settled' = RefreshOutcome("RefreshMintFailed", Before)
    /\ UNCHANGED <<config, now, tasks, alive, selIn, selOut, probes, wire, relay, server, bench>>

\* a client calls refreshToken(); a failed mint throws to that caller
RefreshToken(mintOk) ==
    /\ alive
    /\ IF currentSession = NULL
       THEN /\ UNCHANGED clientVars
            /\ settled' = RefreshOutcome("RefreshNoop", Before)
       ELSE IF mintOk
       THEN /\ RefreshMinted(timers)
            /\ settled' = RefreshOutcome("Refreshed", Before)
       ELSE /\ UNCHANGED clientVars
            /\ settled' = RefreshOutcome("RefreshMintFailed", Before)
    /\ UNCHANGED <<config, now, tasks, alive, selIn, selOut, probes, wire, relay, server, bench>>

\* the callback of scheduleTokenRefresh runs: refreshToken(), and when that
\* throws with a Session held, connect(currentSession.country)
TimerFire(tm, mintOk) ==
    /\ alive
    /\ tm \in timers
    /\ tm.fireAt <= now
    /\ IF currentSession = NULL
       THEN /\ timers' = timers \ {tm}
            /\ settled' = NULL
            /\ UNCHANGED <<currentSession, sessionToken, tokenExpiry,
                           tokenRefreshTimeout, tasks>>
       ELSE IF mintOk
       THEN /\ RefreshMinted(timers \ {tm})
            /\ settled' = NULL
            /\ UNCHANGED tasks
       ELSE /\ timers' = timers \ {tm}
            /\ StartConnect(tasks, currentSession.country, "timer",
                            [Before EXCEPT !.timers = timers'], NULL)
            /\ UNCHANGED <<currentSession, sessionToken, tokenExpiry, tokenRefreshTimeout>>
    /\ Rejected
    /\ UNCHANGED <<config, now, selIn, selOut, probes, wire, relay, server, bench>>

\* disconnect() that drops token and expiry whether or not a Session is held
DisconnectBodyDropsToken ==
    /\ timers' = IF tokenRefreshTimeout # 0
                 THEN ClearTimeout(timers, tokenRefreshTimeout) ELSE timers
    /\ currentSession' = NULL
    /\ sessionToken' = NULL
    /\ tokenExpiry' = NULL
    /\ UNCHANGED tokenRefreshTimeout

\* the body of disconnect(): the stored timer is cleared; the Session, token
\* and expiry are dropped when a Session is held
DisconnectBody ==
    /\ timers' = IF tokenRefreshTimeout # 0
                 THEN ClearTimeout(timers, tokenRefreshTimeout) ELSE timers
    /\ IF currentSession # NULL
       THEN /\ currentSession' = NULL
            /\ sessionToken' = NULL
            /\ tokenExpiry' = NULL
       ELSE UNCHANGED <<currentSession, sessionToken, tokenExpiry>>
    /\ UNCHANGED tokenRefreshTimeout

\* history: the connect() calls that were in flight when disconnect() ran
MarkSuperseded(ts) ==
    [ t \in { [u EXCEPT !.superseded = TRUE] : u \in BagToSet(ts) } |->
          CopiesIn(t, ts) + CopiesIn([t EXCEPT !.superseded = FALSE], ts) ]

\* a client calls disconnect()
Disconnect ==
    /\ alive
    /\ DisconnectBody
    /\ tasks' = MarkSuperseded(tasks)
    /\ settled' = NULL
    /\ UNCHANGED <<config, now, alive, selIn, selOut, probes, wire, relay, server, bench>>

\* history: the disconnect() of a switchCountry(country) has returned and its
\* connect(country), called in the client state before, is in flight;
\* hadSession: a Session was held when switchCountry was called
SwitchOutcome(country, hadSession, before) ==
    [origin |-> "caller", country |-> country, result |-> "Switching",
     checks |-> <<>>, resp |-> "none", before |-> before, hadSession |-> hadSession]

\* switchCountry that connects without disconnecting first
SwitchCountryKeepsSession(newCountry) ==
    /\ alive
    /\ StartConnect(tasks, newCountry, "caller", Before,
                    SwitchOutcome(newCountry, currentSession # NULL, Before))
    /\ UNCHANGED <<config, now, clientVars, alive, selIn, selOut, probes, wire, relay, server, bench>>

\* a client calls switchCountry(newCountry): disconnect(), then the
\* synchronous part of connect(newCountry)
SwitchCountry(newCountry) ==
    LET afterDisconnect ==
            [Before EXCEPT !.session = currentSession', !.token = sessionToken',
                           !.expiry = tokenExpiry', !.timers = timers']
    IN  /\ alive
        /\ DisconnectBody
        /\ StartConnect(MarkSuperseded(tasks), newCountry, "caller", afterDisconnect,
                        SwitchOutcome(newCountry, currentSession # NULL, afterDisconnect))
        /\ UNCHANGED <<config, now, alive, selIn, selOut, probes, wire, relay, server, bench>>

\* time passes
Tick ==
    /\ alive
    /\ now + TickMs <= MaxTicks * TickMs
    /\ now' = now + TickMs
    /\ settled' = NULL
    /\ UNCHANGED <<config, clientVars, tasks, alive, selIn, selOut, probes, wire, relay, server, bench>>

----------------------------------------------------------------------------
(* The client *)

\* whether generateSessionToken returns (TRUE) or throws, where a step calls
\* it; a step that does not call it has one outcome
MintOutcomes(called) == IF called THEN BOOLEAN ELSE {TRUE}

Next ==
    \/ \E c \in CountryArgs : Connect(c)
    \/ \E t \in BagToSet(tasks) : \E hc \in HealthChecks(config.regions[t.country]) :
           \E mintOk \in MintOutcomes(getBestWorker(hc).ok) :
               ProbesResolved(t, hc, mintOk)
    \/ \E t \in BagToSet(tasks) : \E resp \in HandshakeResponses : HandshakeReply(t, resp)
    \/ \E tm \in timers : \E mintOk \in MintOutcomes(currentSession # NULL) :
           TimerFire(tm, mintOk)
    \/ \E mintOk \in MintOutcomes(currentSession # NULL) : RefreshToken(mintOk)
    \/ Disconnect
    \/ \E c \in CountryArgs : SwitchCountry(c)
    \/ Tick

Spec == Init /\ [][Next]_vars

----------------------------------------------------------------------------
(* The selector alone, on every combination of probe results *)

WorkerUrl(i) == <<"w1", "w2", "w3", "w4", "w5">>[i]

\* the probe results of a region with n endpoints, in configuration order
SelInputs(n) ==
    { [i \in 1..n |-> [f[i] EXCEPT !.url = WorkerUrl(i)]] :
          f \in [1..n -> HealthResults("w")] }

SelInit ==
    /\ InitClient
    /\ selIn \in UNION { SelInputs(n) : n \in 0..MaxWorkers }
    /\ selOut = NULL

\* getBestWorker runs on the probe results selIn
RunSelect ==
    /\ selOut = NULL
    /\ selOut' = getBestWorker(selIn)
    /\ UNCHANGED <<config, now, clientVars, tasks, settled, alive, selIn, probes, wire, relay, server, bench>>

SelNext == RunSelect

SelSpec == SelInit /\ [][SelNext]_vars

----------------------------------------------------------------------------
(* HealthProbe in time: the healthCheck calls of one getBestWorker call *)

MaxProbes == 2        \* endpoints of the probed region
MaxProbeSteps == 3    \* clock steps per behaviour of ProbeSpec

\* one clock step of ProbeSpec: half the default probe timeout
ProbeStepMs == HealthTimeout \div 2

\* config.health.timeout as config.json may give it
HealthConfigs == {HealthTimeout \div 2, HealthTimeout}

\* the timeout that healthCheck runs with when getBestWorker calls it: the
\* default of the parameter
ProbeTimeoutMs == HealthTimeout

\* healthCheck(workerUrl) has sent its request and armed timeoutId
NewProbe(workerUrl) ==
    [url |-> workerUrl, timeoutId |-> TRUE, phase |-> "sent", statusCode |-> 0,
     latency |-> 0, result |-> NULL, resolvedAt |-> 0]

\* resolve(value) of the probe's promise: the first call settles it
Resolve(probe, value) ==
    IF probe.result = NULL
    THEN [probe EXCEPT !.result = value, !.resolvedAt = now]
    ELSE probe

\* the probes are now ps, and getBestWorker selects as soon as one is resolved
AfterProbeRaceToFirst(ps) ==
    /\ probes' = ps
    /\ IF selOut = NULL /\ \E i \in DOMAIN ps : ps[i].result # NULL
       THEN LET healthChecks ==
                    [i \in DOMAIN ps |->
                        IF ps[i].result # NULL THEN ps[i].result
                        ELSE [url |-> ps[i].url, status |-> "error", latency |-> 0]]
            IN  /\ selIn' = healthChecks
                /\ selOut' = getBestWorker(healthChecks)
       ELSE UNCHANGED <<selIn, selOut>>

\* the probes are now ps; when the last of them has resolved, Promise.all
\* resolves and getBestWorker resumes with the results and selects
AfterProbe(ps) ==
    /\ probes' = ps
    /\ IF selOut = NULL /\ \A i \in DOMAIN ps : ps[i].result # NULL
       THEN LET healthChecks == [i \in DOMAIN ps |-> ps[i].result]
            IN  /\ selIn' = healthChecks
                /\ selOut' = getBestWorker(healthChecks)
       ELSE UNCHANGED <<selIn, selOut>>

\* the setTimeout callback of probe i runs
ProbeTimeout(i) ==
    /\ probes[i].timeoutId
    /\ now >= ProbeTimeoutMs
    /\ AfterProbe([probes EXCEPT ![i] =
           Resolve([@ EXCEPT !.timeoutId = FALSE],
                   [url |-> @.url, status |-> "timeout", latency |-> ProbeTimeoutMs])])
    /\ UNCHANGED <<config, now, clientVars, tasks, settled, alive, wire, relay, server, bench>>

\* the response callback of probe i runs: the headers are in
ProbeResponse(i, statusCode) ==
    /\ probes[i].phase = "sent"
    /\ AfterProbe([probes EXCEPT ![i] =
           [@ EXCEPT !.timeoutId = FALSE, !.phase = "headers",
                     !.statusCode = statusCode, !.latency = now]])
    /\ UNCHANGED <<config, now, clientVars, tasks, settled, alive, wire, relay, server, bench>>

\* the value the 'end' handler of the response resolves with
EndResult(probe, parses) ==
    IF parses
    THEN [url |-> probe.url,
          status |-> IF probe.statusCode = 200 THEN "healthy" ELSE "error",
          latency |-> probe.latency, data |-> "parsed"]
    ELSE [url |-> probe.url, status |-> "invalid", latency |-> probe.latency]

\* the 'end' event of the response of probe i: the body is complete
ProbeEnd(i, parses) ==
    /\ probes[i].phase = "headers"
    /\ AfterProbe([probes EXCEPT ![i] =
           Resolve([@ EXCEPT !.phase = "done"], EndResult(@, parses))])
    /\ UNCHANGED <<config, now, clientVars, tasks, settled, alive, wire, relay, server, bench>>

\* the 'error' event of the request of probe i, before any response
ProbeError(i) ==
    /\ probes[i].phase = "sent"
    /\ AfterProbe([probes EXCEPT ![i] =
           Resolve([@ EXCEPT !.timeoutId = FALSE, !.phase = "done"],
                   [url |-> @.url, status |-> "error", latency |-> now])])
    /\ UNCHANGED <<config, now, clientVars, tasks, settled, alive, wire, relay, server, bench>>

\* time passes; a timer that is due runs before the clock moves on
ProbeTick ==
    /\ now < MaxProbeSteps * ProbeStepMs
    /\ \A i \in DOMAIN probes : probes[i].timeoutId => now < ProbeTimeoutMs
    /\ now' = now + ProbeStepMs
    /\ UNCHANGED <<config, clientVars, tasks, settled, alive, selIn, selOut, probes, wire, relay, server, bench>>

\* getBestWorker has started one healthCheck per endpoint of the region
ProbeInit ==
    /\ config \in { [regions |-> Regions,
                     auth |-> [tokenDuration |-> 300, refreshBuffer |-> 60],
                     health |-> [timeout |-> h]] : h \in HealthConfigs }
    /\ now = 0
    /\ currentSession = NULL
    /\ sessionToken = NULL
    /\ tokenExpiry = NULL
    /\ tokenRefreshTimeout = 0
    /\ timers = {}
    /\ tasks = EmptyBag
    /\ settled = NULL
    /\ alive = TRUE
    /\ probes \in { [i \in 1..n |-> NewProbe(WorkerUrl(i))] : n \in 1..MaxProbes }
    /\ selIn = <<>>
    /\ selOut = NULL
    /\ wire = NULL
    /\ relay = NULL
    /\ server = NULL
    /\ bench = NULL

ProbeNext ==
    \/ \E i \in DOMAIN probes : ProbeTimeout(i)
    \/ \E i \in DOMAIN probes : \E statusCode \in {200, 503} : ProbeResponse(i, statusCode)
    \/ \E i \in DOMAIN probes : \E parses \in BOOLEAN : ProbeEnd(i, parses)
    \/ \E i \in DOMAIN probes : ProbeError(i)
    \/ ProbeTick

ProbeSpec == ProbeInit /\ [][ProbeNext]_vars

----------------------------------------------------------------------------
(* The token on the wire: generateSessionToken and the relays' validateToken.
   Text is a sequence of character codes (ASCII). *)

\* the pieces of JSON.stringify(payload), in the order of the payload's keys
JsonCountry == <<123, 34, 99, 111, 117, 110, 116, 114, 121, 34, 58, 34>>
    \* {"country":"
JsonWorkerId == <<34, 44, 34, 119, 111, 114, 107, 101, 114, 73, 100, 34, 58, 34>>
    \* ","workerId":"
JsonSessionId == <<34, 44, 34, 115, 101, 115, 115, 105, 111, 110, 73, 100, 34, 58, 34>>
    \* ","sessionId":"
JsonIssued == <<34, 44, 34, 105, 115, 115, 117, 101, 100, 34, 58>>
    \* ","issued":
JsonExpires == <<44, 34, 101, 120, 112, 105, 114, 101, 115, 34, 58>>
    \* ,"expires":
JsonClose == <<125>>
    \* }

\* JSON.stringify({alg: "HS256", typ: "JWT"})
JsonHeader == <<123, 34, 97, 108, 103, 34, 58, 34, 72, 83, 50, 53, 54, 34, 44, 34, 116, 121, 112, 34, 58, 34, 74, 87, 84, 34, 125>>

\* region codes of the configuration
WireCountries == {<<85, 83>>, <<69, 85>>, <<65, 80>>}
    \* US, EU, AP

\* endpoint addresses a configuration may hold: a default one, and two with
\* a tilde in the path
WireWorkers ==
    { <<104, 116, 116, 112, 115, 58, 47, 47, 112, 115, 101, 117, 100, 111, 118, 112, 110, 45, 117, 115, 45, 98, 97, 99, 107, 117, 112, 46, 100, 101, 110, 111, 46, 100, 101, 118>>,
          \* https://pseudovpn-us-backup.deno.dev
      <<104, 116, 116, 112, 115, 58, 47, 47, 97, 46, 105, 111, 47, 126, 97>>,
          \* https://a.io/~a
      <<104, 116, 116, 112, 115, 58, 47, 47, 97, 98, 46, 105, 111, 47, 126, 97>> }
          \* https://ab.io/~a

RECURSIVE Rep(_, _)
\* the character c, n times
Rep(c, n) == IF n = 0 THEN <<>> ELSE <<c>> \o Rep(c, n - 1)

\* crypto.randomUUID() values: version 4 UUIDs, here of one hexadecimal digit
Uuid(d) ==
    Rep(d, 8) \o <<45>> \o Rep(d, 4) \o <<45, 52>> \o Rep(d, 3) \o <<45, 56>> \o Rep(d, 3)
        \o <<45>> \o Rep(d, 12)

WireSessionIds == {Uuid(49), Uuid(97)}
    \* of the digits 1 and a

\* signatures: 43 characters of the base64url alphabet (32 bytes)
WireSignatures == {Rep(65, 43), Rep(45, 43)}
    \* of A and of -

RECURSIVE Digits(_)
\* a non-negative integer as JSON.stringify writes it
Digits(n) ==
    IF n < 10 THEN <<48 + n>> ELSE Digits(n \div 10) \o <<48 + (n % 10)>>

\* JSON.stringify(payload); a key whose value is undefined is left out
Stringify(payload) ==
    JsonCountry \o payload.country \o JsonWorkerId \o payload.workerId
        \o JsonSessionId \o payload.sessionId \o JsonIssued \o Digits(payload.issued)
        \o (IF "expires" \in DOMAIN payload
            THEN JsonExpires \o Digits(payload.expires) ELSE <<>>)
        \o JsonClose

\* the base64url alphabet of Buffer.toString('base64url'): A-Z a-z 0-9 - _
Base64UrlAlphabet ==
    [v \in 0..63 |->
        IF v < 26 THEN 65 + v
        ELSE IF v < 52 THEN 97 + (v - 26)
        ELSE IF v < 62 THEN 48 + (v - 52)
        ELSE IF v = 62 THEN 45 ELSE 95]

\* the base64 alphabet that atob accepts: A-Z a-z 0-9 + /
Base64Alphabet ==
    [v \in 0..63 |->
        IF v < 26 THEN 65 + v
        ELSE IF v < 52 THEN 97 + (v - 26)
        ELSE IF v < 62 THEN 48 + (v - 52)
        ELSE IF v = 62 THEN 43 ELSE 47]

RECURSIVE Sextets(_)
\* the 6-bit groups of a byte sequence; the last group is filled with zero bits
Sextets(bytes) ==
    IF Len(bytes) = 0 THEN <<>>
    ELSE IF Len(bytes) = 1
    THEN << bytes[1] \div 4, (bytes[1] % 4) * 16 >>
    ELSE IF Len(bytes) = 2
    THEN << bytes[1] \div 4, (bytes[1] % 4) * 16 + bytes[2] \div 16,
            (bytes[2] % 16) * 4 >>
    ELSE << bytes[1] \div 4, (bytes[1] % 4) * 16 + bytes[2] \div 16,
            (bytes[2] % 16) * 4 + bytes[3] \div 64, bytes[3] % 64 >>
         \o Sextets(SubSeq(bytes, 4, Len(bytes)))

\* Buffer.from(text).toString('base64url'): no padding
ToBase64Url(text) ==
    LET groups == Sextets(text)
    IN  [i \in 1..Len(groups) |-> Base64UrlAlphabet[groups[i]]]

RECURSIVE Octets(_)
\* the bytes of a sequence of 6-bit groups; left-over bits are dropped
Octets(groups) ==
    IF Len(groups) < 2 THEN <<>>
    ELSE IF Len(groups) = 2
    THEN << groups[1] * 4 + groups[2] \div 16 >>
    ELSE IF Len(groups) = 3
    THEN << groups[1] * 4 + groups[2] \div 16,
            (groups[2] % 16) * 16 + groups[3] \div 4 >>
    ELSE << groups[1] * 4 + groups[2] \div 16,
            (groups[2] % 16) * 16 + groups[3] \div 4,
            (groups[3] % 4) * 64 + groups[4] >>
         \o Octets(SubSeq(groups, 5, Len(groups)))

\* atob(data), the forgiving base64 decoding (the tokens hold no white space
\* and no padding): a character outside the base64 alphabet, or a length of
\* 1 modulo 4, throws
atob(data) ==
    IF \/ \E i \in DOMAIN data : \A v \in 0..63 : Base64Alphabet[v] # data[i]
       \/ Len(data) % 4 = 1
    THEN [threw |-> TRUE]
    ELSE [threw |-> FALSE,
          text |-> Octets([i \in DOMAIN data |->
                              CHOOSE v \in 0..63 : Base64Alphabet[v] = data[i]])]

\* generateSessionToken(country, workerId) on the wire, at time t, with the
\* session id and the signature drawn; elapsed: the ms that pass between the
\* Date.now() call of issued and the one of expires
generateWireToken(country, workerId, sid, signature, t, elapsed, cfg) ==
    LET payload == [country   |-> country,
                    workerId  |-> workerId,
                    sessionId |-> sid,
                    issued    |-> t,
                    expires   |-> (t + elapsed) + cfg.auth.tokenDuration * 1000]
        header == ToBase64Url(JsonHeader)
        payloadB64 == ToBase64Url(Stringify(payload))
    IN  [token |-> header \o <<46>> \o payloadB64 \o <<46>> \o signature,
         payload |-> payload]

RECURSIVE Split(_, _)
\* text.split(c)
Split(text, c) ==
    IF \A i \in DOMAIN text : text[i] # c THEN <<text>>
    ELSE LET k == CHOOSE i \in DOMAIN text :
                      text[i] = c /\ \A j \in 1..(i - 1) : text[j] # c
         IN  <<SubSeq(text, 1, k - 1)>> \o Split(SubSeq(text, k + 1, Len(text)), c)

\* text has the characters of piece from position i on
HasAt(text, i, piece) ==
    /\ i >= 1
    /\ i + Len(piece) - 1 <= Len(text)
    /\ SubSeq(text, i, i + Len(piece) - 1) = piece

\* the first position from i on that holds the character c; 0 if there is none
Until(text, i, c) ==
    IF \E j \in i..Len(text) : text[j] = c
    THEN CHOOSE j \in i..Len(text) : text[j] = c /\ \A k \in i..(j - 1) : text[k] # c
    ELSE 0

IsDigit(c) == c \in 48..57

\* the first position from i on that holds no digit (past the end if none)
DigitsEnd(text, i) ==
    IF \E j \in i..Len(text) : ~IsDigit(text[j])
    THEN CHOOSE j \in i..Len(text) :
             ~IsDigit(text[j]) /\ \A k \in i..(j - 1) : IsDigit(text[k])
    ELSE Len(text) + 1

RECURSIVE ToNat(_)
\* the number a sequence of digits denotes
ToNat(digits) ==
    IF Len(digits) = 0 THEN 0
    ELSE 10 * ToNat(SubSeq(digits, 1, Len(digits) - 1)) + (digits[Len(digits)] - 48)

\* JSON.parse(text) for the texts that occur here: the text of a payload
\* object (keys in the payload's order, expires possibly absent, strings
\* without escapes) parses to that object; a text cut short throws
JsonParse(text) ==
    LET a == Len(JsonCountry) + 1
        b == Until(text, a, 34)
        c == b + Len(JsonWorkerId)
        d == Until(text, c, 34)
        e == d + Len(JsonSessionId)
        f == Until(text, e, 34)
        g == f + Len(JsonIssued)
        h == DigitsEnd(text, g)
        k == h + Len(JsonExpires)
        m == DigitsEnd(text, k)
        common == [country   |-> SubSeq(text, a, b - 1),
                   workerId  |-> SubSeq(text, c, d - 1),
                   sessionId |-> SubSeq(text, e, f - 1),
                   issued    |-> ToNat(SubSeq(text, g, h - 1))]
    IN  IF /\ HasAt(text, 1, JsonCountry)
           /\ b # 0 /\ HasAt(text, b, JsonWorkerId)
           /\ d # 0 /\ HasAt(text, d, JsonSessionId)
           /\ f # 0 /\ HasAt(text, f, JsonIssued)
           /\ h > g
        THEN IF HasAt(text, h, JsonClose) /\ h = Len(text)
             THEN [threw |-> FALSE, value |-> common]
             ELSE IF /\ HasAt(text, h, JsonExpires)
                     /\ m > k
                     /\ HasAt(text, m, JsonClose) /\ m = Len(text)
             THEN [threw |-> FALSE,
                   value |-> [country   |-> common.country,
                              workerId  |-> common.workerId,
                              sessionId |-> common.sessionId,
                              issued    |-> common.issued,
                              expires   |-> ToNat(SubSeq(text, k, m - 1))]]
             ELSE [threw |-> TRUE]
        ELSE [threw |-> TRUE]

\* what validateToken returns for false
Refused == [valid |-> FALSE]

\* Date.now() > payload.expires at time t; a comparison with undefined is false
Expired(t, payload) == "expires" \in DOMAIN payload /\ t > payload.expires

\* Buffer.from(data, "base64"): both alphabets are understood and nothing throws
BufferFromBase64(data) ==
    LET known == SelectSeq(data, LAMBDA ch :
                     \E v \in 0..63 : Base64Alphabet[v] = ch \/ Base64UrlAlphabet[v] = ch)
    IN  Octets([i \in DOMAIN known |->
                   CHOOSE v \in 0..63 :
                       Base64Alphabet[v] = known[i] \/ Base64UrlAlphabet[v] = known[i]])

\* validateToken(token, sessionId) of the Express relays, called at time t
validateTokenExpress(token, sessionId, t) ==
    LET parts == Split(token, 46)
        payload == JsonParse(BufferFromBase64(parts[2]))
    IN  IF Len(token) = 0 THEN Refused
        ELSE IF Len(parts) # 3 THEN Refused
        ELSE IF payload.threw THEN Refused
        ELSE IF Expired(t, payload.value) THEN Refused
        ELSE IF payload.value.sessionId # sessionId THEN Refused
        ELSE payload.value

\* validateToken(token, sessionId) of the Cloudflare relay, called at time t
validateTokenWorker(token, sessionId, t) ==
    LET parts == Split(token, 46)
        decoded == atob(parts[2])
        payload == JsonParse(decoded.text)
    IN  IF Len(token) = 0 THEN Refused
        ELSE IF Len(parts) # 3 THEN Refused
        ELSE IF decoded.threw THEN Refused
        ELSE IF payload.threw THEN Refused
        ELSE IF Expired(t, payload.value) THEN Refused
        ELSE IF payload.value.sessionId # sessionId THEN Refused
        ELSE payload.value

\* validateToken(token, sessionId) of the Deno relay, called at time t
validateToken(token, sessionId, t) ==
    LET parts == Split(token, 46)
        decoded == atob(parts[2])
        payload == JsonParse(decoded.text)
    IN  IF Len(token) = 0 THEN Refused
        ELSE IF Len(parts) # 3 THEN Refused
        ELSE IF decoded.threw THEN Refused
        ELSE IF payload.threw THEN Refused
        ELSE IF Expired(t, payload.value) THEN Refused
        ELSE IF payload.value.sessionId # sessionId THEN Refused
        ELSE payload.value

\* validateToken of a relay variant
validateTokenOf(variant, token, sessionId, t) ==
    IF variant = "deno" THEN validateToken(token, sessionId, t)
    ELSE IF variant = "worker" THEN validateTokenWorker(token, sessionId, t)
    ELSE validateTokenExpress(token, sessionId, t)

RelayVariants == {"deno", "worker", "express"}

\* the configurations of TokenSpec: config.json is taken as it is, so the
\* token duration may be 0
TokenAuthConfigs == AuthConfigs \cup {[tokenDuration |-> 0, refreshBuffer |-> 60]}

\* the client mints a token for an endpoint of a region
Generate(country, workerId, sid, signature, elapsed) ==
    /\ wire = NULL
    /\ wire' = generateWireToken(country, workerId, sid, signature, now, elapsed, config)
    /\ UNCHANGED <<config, now, clientVars, tasks, settled, alive, selIn, selOut, probes,
                   relay, server, bench>>

\* what a relay may be sent instead of the token: nothing, the token without
\* its signature segment, the token with its payload segment cut short
TokenForms == {"generated", "absent", "twoSegments", "cutPayload"}

TokenAs(form, token) ==
    LET parts == Split(token, 46)
    IN  IF form = "absent" THEN <<>>
        ELSE IF form = "twoSegments" THEN parts[1] \o <<46>> \o parts[2]
        ELSE IF form = "cutPayload"
        THEN parts[1] \o <<46>> \o SubSeq(parts[2], 1, Len(parts[2]) \div 2)
                      \o <<46>> \o parts[3]
        ELSE token

\* a relay validates what it was sent against the session id it was sent: when
\* the token is issued, at its expiry, or one ms past its expiry
Validate(variant, form, sessionId, when) ==
    LET t == IF when = "issued" THEN now
             ELSE IF when = "expiry" THEN wire.payload.expires
             ELSE wire.payload.expires + 1
        token == TokenAs(form, wire.token)
    IN  /\ wire # NULL
        /\ relay = NULL
        /\ relay' = [variant |-> variant, form |-> form, token |-> token,
                     sessionId |-> sessionId, at |-> t,
                     returned |-> validateTokenOf(variant, token, sessionId, t)]
        /\ UNCHANGED <<config, now, clientVars, tasks, settled, alive, selIn, selOut,
                       probes, wire, server, bench>>

TokenInit ==
    /\ config \in { [regions |-> Regions, auth |-> a] : a \in TokenAuthConfigs }
    /\ now = 0
    /\ currentSession = NULL
    /\ sessionToken = NULL
    /\ tokenExpiry = NULL
    /\ tokenRefreshTimeout = 0
    /\ timers = {}
    /\ tasks = EmptyBag
    /\ settled = NULL
    /\ alive = TRUE
    /\ probes = <<>>
    /\ selIn = <<>>
    /\ selOut = NULL
    /\ wire = NULL
    /\ relay = NULL
    /\ server = NULL
    /\ bench = NULL

TokenNext ==
    \/ \E c \in WireCountries : \E w \in WireWorkers : \E sid \in WireSessionIds :
           \E sig \in WireSignatures : \E elapsed \in {0, 1} : Generate(c, w, sid, sig, elapsed)
    \/ \E variant \in RelayVariants : \E form \in TokenForms :
           \E sid \in WireSessionIds : \E when \in {"issued", "expiry", "late"} :
               Validate(variant, form, sid, when)

TokenSpec == TokenInit /\ [][TokenNext]_vars

----------------------------------------------------------------------------
(* A relay: POST /connect, /proxy and the cleanup of its session table *)

MaxRelaySteps == 2    \* clock steps per behaviour of RelaySpec

\* one clock step of RelaySpec: the lifetime of the tokens it is sent
RelayStepMs == 60 * 1000

\* the relay servers of the repository: the Deno worker, the Cloudflare
\* worker, the Express server whose /proxy checks the session, and the
\* Express server (Render) whose /proxy does not
RelayServers == {"deno", "worker", "express", "render"}


\* the token the client mints at time 0 for the first session id
ClientToken ==
    generateWireToken(<<85, 83>>, <<104, 116, 116, 112, 115, 58, 47, 47, 112, 115, 101, 117, 100, 111, 118, 112, 110, 45, 117, 115, 45, 98, 97, 99, 107, 117, 112, 46, 100, 101, 110, 111, 46, 100, 101, 118>>,
                      Uuid(49), Rep(65, 43), 0, 0,
                      [auth |-> [tokenDuration |-> 60, refreshBuffer |-> 60]]).token

\* a token written by hand for the second session id, whose payload has no
\* expires: the signature is not verified, so any client can send one
TokenWithoutExpires ==
    ToBase64Url(JsonHeader) \o <<46>>
        \o ToBase64Url(Stringify([country |-> <<85, 83>>, workerId |-> <<104, 116, 116, 112, 115, 58, 47, 47, 112, 115, 101, 117, 100, 111, 118, 112, 110, 45, 117, 115, 45, 98, 97, 99, 107, 117, 112, 46, 100, 101, 110, 111, 46, 100, 101, 118>>,
                                  sessionId |-> Uuid(97), issued |-> 0]))
        \o <<46>> \o Rep(65, 43)

\* the tokens a relay is sent; <<>> is no token
RelayTokens ==
    {<<>>, ClientToken, TokenWithoutExpires, TokenAs("twoSegments", ClientToken)}

\* the session ids a relay is sent; <<>> is none
RelaySessionIds == {<<>>, Uuid(49), Uuid(97)}

\* the times of RelaySpec
RelayTimes == { n * RelayStepMs : n \in 0..MaxRelaySteps }

\* validateToken(token, sessionId) of each relay server at each time, for
\* the tokens and session ids a relay is sent
RelayValidation ==
    [variant \in RelayServers |-> [token \in RelayTokens |->
        [sessionId \in RelaySessionIds |-> [t \in RelayTimes |->
            validateTokenOf(IF variant = "render" THEN "express" ELSE variant,
                            token, sessionId, t)]]]]

\* validateToken of a relay server
validateTokenAt(variant, token, sessionId, t) ==
    RelayValidation[variant][token][sessionId][t]

\* activeSessions.set(sessionId, session)
MapSet(map, key, value) ==
    [k \in DOMAIN map \cup {key} |-> IF k = key THEN value ELSE map[k]]

\* activeSessions.delete(sessionId)
MapDelete(map, key) == [k \in DOMAIN map \ {key} |-> map[k]]

\* the session POST /connect stores (created, clientInfo and lastActivity
\* are left out); expires is absent when the payload has none
NewSession(sessionId, payload) ==
    IF "expires" \in DOMAIN payload
    THEN [sessionId |-> sessionId, expires |-> payload.expires, country |-> payload.country]
    ELSE [sessionId |-> sessionId, country |-> payload.country]

\* history: a request, the session table it found, and the answer
Answer(op, token, sessionId, status, forwarded) ==
    [op |-> op, action |-> "", token |-> token, sessionId |-> sessionId, at |-> now,
     sessions |-> server.activeSessions, status |-> status, forwarded |-> forwarded]

\* POST /connect with body {action, token, sessionId}
handleConnect(action, token, sessionId) ==
    LET tokenPayload == validateTokenAt(server.variant, token, sessionId, now)
    IN  /\ server # NULL
        /\ IF action # "connect" \/ token = <<>> \/ sessionId = <<>>
           THEN /\ relay' = [Answer("connect", token, sessionId, 400, FALSE) EXCEPT !.action = action]
                /\ UNCHANGED server
           ELSE IF tokenPayload = Refused
           THEN /\ relay' = [Answer("connect", token, sessionId, 401, FALSE) EXCEPT !.action = action]
                /\ UNCHANGED server
           ELSE /\ server' = [server EXCEPT !.activeSessions =
                                  MapSet(@, sessionId, NewSession(sessionId, tokenPayload))]
                \* new Date(undefined).toISOString() throws a RangeError
                /\ relay' = [Answer("connect", token, sessionId,
                                    IF "expires" \in DOMAIN tokenPayload THEN 200 ELSE 500,
                                    FALSE) EXCEPT !.action = action]
        /\ UNCHANGED <<config, now, clientVars, tasks, settled, alive, selIn, selOut, probes,
                       wire, bench>>

\* a request to /proxy with the headers X-Session-ID and Authorization and
\* the query parameter url (hasTarget); the target answers targetStatus
handleProxy(sessionId, token, hasTarget, targetStatus) ==
    LET sessions == server.activeSessions
    IN  /\ server # NULL
        /\ IF server.variant = "render"
           THEN /\ relay' = IF hasTarget
                            THEN Answer("proxy", token, sessionId, targetStatus, TRUE)
                            ELSE Answer("proxy", token, sessionId, 400, FALSE)
                /\ UNCHANGED server
           ELSE IF sessionId = <<>> \/ token = <<>>
           THEN /\ relay' = Answer("proxy", token, sessionId, 401, FALSE)
                /\ UNCHANGED server
           ELSE IF sessionId \notin DOMAIN sessions \/ Expired(now, sessions[sessionId])
           THEN /\ relay' = Answer("proxy", token, sessionId, 401, FALSE)
                /\ server' = [server EXCEPT !.activeSessions = MapDelete(@, sessionId)]
           ELSE IF validateTokenAt(server.variant, token, sessionId, now) = Refused
           THEN /\ relay' = Answer("proxy", token, sessionId, 401, FALSE)
                /\ UNCHANGED server
           ELSE /\ relay' = IF hasTarget
                            THEN Answer("proxy", token, sessionId, targetStatus, TRUE)
                            ELSE Answer("proxy", token, sessionId, 400, FALSE)
                /\ UNCHANGED server
        /\ UNCHANGED <<config, now, clientVars, tasks, settled, alive, selIn, selOut, probes,
                       wire, bench>>

\* cleanupExpiredSessions() that also removes a session at its expiry
cleanupExpiredSessionsAtExpiry(sessions, t) ==
    [k \in { x \in DOMAIN sessions :
                ~("expires" \in DOMAIN sessions[x] /\ t >= sessions[x].expires) }
        |-> sessions[k]]

\* cleanupExpiredSessions() at time t: the session table after it
cleanupExpiredSessions(sessions, t) ==
    [k \in { x \in DOMAIN sessions : ~Expired(t, sessions[x]) } |-> sessions[k]]

\* GET /health: the cleanup, then the answer with activeSessions.size
handleHealthCheck ==
    /\ server # NULL
    /\ server' = [server EXCEPT !.activeSessions = cleanupExpiredSessions(@, now)]
    /\ relay' = [op |-> "health", at |-> now, sessions |-> server.activeSessions,
                 status |-> 200,
                 activeSessions |-> Cardinality(DOMAIN server'.activeSessions)]
    /\ UNCHANGED <<config, now, clientVars, tasks, settled, alive, selIn, selOut, probes,
                   wire, bench>>

\* the cleanup timer of the relay fires
CleanupTimer ==
    /\ server # NULL
    /\ server' = [server EXCEPT !.activeSessions = cleanupExpiredSessions(@, now)]
    /\ relay' = [op |-> "cleanup", at |-> now, sessions |-> server.activeSessions]
    /\ UNCHANGED <<config, now, clientVars, tasks, settled, alive, selIn, selOut, probes,
                   wire, bench>>

\* time passes at the relay
RelayTick ==
    /\ now < MaxRelaySteps * RelayStepMs
    /\ now' = now + RelayStepMs
    /\ relay' = NULL
    /\ UNCHANGED <<config, clientVars, tasks, settled, alive, selIn, selOut, probes,
                   wire, server, bench>>

\* a relay has started with an empty session table
RelayInit ==
    /\ config \in { [regions |-> Regions, auth |-> [tokenDuration |-> 60, refreshBuffer |-> 60]] }
    /\ now = 0
    /\ currentSession = NULL
    /\ sessionToken = NULL
    /\ tokenExpiry = NULL
    /\ tokenRefreshTimeout = 0
    /\ timers = {}
    /\ tasks = EmptyBag
    /\ settled = NULL
    /\ alive = TRUE
    /\ probes = <<>>
    /\ selIn = <<>>
    /\ selOut = NULL
    /\ wire = NULL
    /\ relay = NULL
    /\ server \in { [variant |-> v, activeSessions |-> <<>>] : v \in RelayServers }
    /\ bench = NULL

RelayNext ==
    \/ \E action \in {"connect", "status"} : \E token \in RelayTokens :
           \E sessionId \in RelaySessionIds : handleConnect(action, token, sessionId)
    \/ \E sessionId \in RelaySessionIds : \E token \in RelayTokens :
           \E hasTarget \in BOOLEAN : \E targetStatus \in {200, 404} :
               handleProxy(sessionId, token, hasTarget, targetStatus)
    \/ handleHealthCheck
    \/ CleanupTimer
    \/ RelayTick

RelaySpec == RelayInit /\ [][RelayNext]_vars

----------------------------------------------------------------------------
(* benchmark(): N connect/disconnect cycles and their statistics *)

MaxIterations == 5    \* the largest iterations argument of BenchSpec

\* the pause between two iterations, in ms
BenchPauseMs == 1000

\* how await this.connect(country) ends inside an iteration
ConnectOutcomes == {"ok", "NoHealthyEndpoint", "HandshakeFailed"}

\* results.filter(r => r.success)
Successful(results) == SelectSeq(results, LAMBDA r : r.success)

\* successful.reduce((sum, r) => sum + r.connectionTime, 0)
RECURSIVE SumConnectionTime(_)
SumConnectionTime(rs) ==
    IF rs = <<>> THEN 0 ELSE Head(rs).connectionTime + SumConnectionTime(Tail(rs))

\* successful.reduce((sum, r) => sum + r.requestTime, 0)
RECURSIVE SumRequestTime(_)
SumRequestTime(rs) ==
    IF rs = <<>> THEN 0 ELSE Head(rs).requestTime + SumRequestTime(Tail(rs))

\* the statistics benchmark() prints; a mean is kept as its sum and its
\* divisor, and nothing is printed unless an iteration succeeded
Statistics(results, iterations) ==
    LET successful == Successful(results)
    IN  IF Len(successful) > 0
        THEN [successes |-> Len(successful), iterations |-> iterations,
              avgConnection |-> <<SumConnectionTime(successful), Len(successful)>>,
              avgRequest |-> <<SumRequestTime(successful), Len(successful)>>]
        ELSE NULL

\* one pass of benchmark()'s loop: connect ends after `elapsed` ms with
\* `outcome`; a successful connect is followed by disconnect(), which leaves
\* the manager as it was, and every iteration but the last by the pause
BenchIteration(outcome, elapsed) ==
    /\ bench # NULL
    /\ ~bench.done
    /\ bench.i <= bench.iterations
    /\ LET startTime == now
           connected == now + elapsed
           result == IF outcome = "ok"
                     THEN [iteration |-> bench.i, connectionTime |-> connected - startTime,
                           requestTime |-> 0, success |-> TRUE]
                     ELSE [iteration |-> bench.i, error |-> outcome, success |-> FALSE]
       IN  /\ bench' = [bench EXCEPT !.results = Append(@, result), !.i = @ + 1]
           /\ now' = IF bench.i < bench.iterations THEN connected + BenchPauseMs ELSE connected
    /\ UNCHANGED <<config, clientVars, tasks, settled, alive, selIn, selOut, probes,
                   wire, relay, server>>

\* after the loop: the statistics
BenchReport ==
    /\ bench # NULL
    /\ ~bench.done
    /\ bench.i > bench.iterations
    /\ bench' = [bench EXCEPT !.done = TRUE,
                              !.report = Statistics(bench.results, bench.iterations)]
    /\ UNCHANGED <<config, now, clientVars, tasks, settled, alive, selIn, selOut, probes,
                   wire, relay, server>>

\* benchmark(country, iterations) has been called on a disconnected manager
BenchInit ==
    /\ config \in { [regions |-> Regions, auth |-> a] : a \in AuthConfigs }
    /\ now = 0
    /\ currentSession = NULL
    /\ sessionToken = NULL
    /\ tokenExpiry = NULL
    /\ tokenRefreshTimeout = 0
    /\ timers = {}
    /\ tasks = EmptyBag
    /\ settled = NULL
    /\ alive = TRUE
    /\ probes = <<>>
    /\ selIn = <<>>
    /\ selOut = NULL
    /\ wire = NULL
    /\ relay = NULL
    /\ server = NULL
    /\ bench \in { [iterations |-> n, i |-> 1, results |-> <<>>, report |-> NULL,
                    done |-> FALSE] : n \in 1..MaxIterations }

BenchNext ==
    \/ \E outcome \in ConnectOutcomes : \E elapsed \in Latencies :
           BenchIteration(outcome, elapsed)
    \/ BenchReport

BenchSpec == BenchInit /\ [][BenchNext]_vars

----------------------------------------------------------------------------
(* getBestWorker and the arrays it works on *)

\* the first n endpoint urls, as a region lists them
WorkerUrls(n) == [i \in 1..n |-> WorkerUrl(i)]

\* the arrays alive when getBestWorker(country) returns or throws after its
\* probes resolved to healthChecks: workers is the array of the configuration
\* itself, map and filter make new arrays, and sort orders the array it is
\* called on, the one filter returned; this variant orders workers as well
getBestWorkerArraysSortsWorkers(cfg, country, healthChecks) ==
    LET workers == cfg.regions[country]
        sortedWorkers == SortByLatency(SelectSeq(healthChecks, IsHealthy))
        rest == SelectSeq(healthChecks, LAMBDA check : ~IsHealthy(check))
    IN  [workers |-> [i \in 1..Len(workers) |-> (sortedWorkers \o rest)[i].url],
         healthChecks |-> healthChecks,
         sortedWorkers |-> sortedWorkers]

\* the arrays alive when getBestWorker(country) returns or throws after its
\* probes resolved to healthChecks: workers is the array of the configuration
\* itself, map and filter make new arrays, and sort orders the array it is
\* called on, the one filter returned
getBestWorkerArrays(cfg, country, healthChecks) ==
    LET workers == cfg.regions[country]
        filtered == SelectSeq(healthChecks, IsHealthy)
    IN  [workers |-> workers,
         healthChecks |-> healthChecks,
         sortedWorkers |-> SortByLatency(filtered)]

\* what Promise.all of the probes of getBestWorker(country) can resolve to:
\* one result per endpoint of the region, in configuration order; no probe
\* is sent for a country that is not configured
ProbeResults(cfg, country) ==
    IF country \notin DOMAIN cfg.regions THEN {<<>>}
    ELSE LET workers == cfg.regions[country]
         IN  { [i \in 1..Len(workers) |-> [f[i] EXCEPT !.url = workers[i]]] :
                   f \in [1..Len(workers) -> HealthResults("w")] }

\* getBestWorker(country) from its call to its end, the probes resolving to
\* healthChecks
SelectIn(country, healthChecks) ==
    /\ selOut = NULL
    /\ IF country \notin DOMAIN config.regions
       THEN /\ selOut' = [ok |-> FALSE, error |-> "Unsupported"]
            /\ UNCHANGED <<config, selIn>>
       ELSE LET arrays == getBestWorkerArrays(config, country, healthChecks)
            IN  /\ config' = [config EXCEPT !.regions[country] = arrays.workers]
                /\ selIn' = arrays.healthChecks
                /\ selOut' = IF Len(arrays.sortedWorkers) = 0
                             THEN [ok |-> FALSE, error |-> "NoHealthyEndpoint"]
                             ELSE [ok |-> TRUE, worker |-> arrays.sortedWorkers[1]]
    /\ UNCHANGED <<now, clientVars, tasks, settled, alive, probes, wire, relay, server, bench>>

\* the caller has the result and the arrays of the call are dropped; the
\* next call can start
SelectDone ==
    /\ selOut # NULL
    /\ selOut' = NULL
    /\ selIn' = <<>>
    /\ UNCHANGED <<config, now, clientVars, tasks, settled, alive, probes, wire, relay,
                   server, bench>>

\* a client whose first region lists up to MaxWorkers endpoints
FrameInit ==
    /\ config \in { [regions |-> [US |-> WorkerUrls(n), EU |-> <<"eu1">>, AP |-> <<>>],
                     auth |-> a] : n \in 0..MaxWorkers, a \in AuthConfigs }
    /\ now = 0
    /\ currentSession = NULL
    /\ sessionToken = NULL
    /\ tokenExpiry = NULL
    /\ tokenRefreshTimeout = 0
    /\ timers = {}
    /\ tasks = EmptyBag
    /\ settled = NULL
    /\ alive = TRUE
    /\ probes = <<>>
    /\ selIn = <<>>
    /\ selOut = NULL
    /\ wire = NULL
    /\ relay = NULL
    /\ server = NULL
    /\ bench = NULL

FrameNext ==
    \/ \E country \in CountryArgs :
           \E healthChecks \in ProbeResults(config, country) :
               SelectIn(country, healthChecks)
    \/ SelectDone

FrameSpec == FrameInit /\ [][FrameNext]_vars

----------------------------------------------------------------------------
(* A caller that connects once and then switches region while connected *)

\* connect(country) as the first call on a new client
FirstConnect(country) ==
    /\ currentSession = NULL
    /\ sessionToken = NULL
    /\ tokenRefreshTimeout = 0
    /\ Idle
    /\ Connect(country)

\* switchCountry(newCountry) called while connected, no other call in flight
SwitchWhenConnected(newCountry) ==
    /\ currentSession # NULL
    /\ Idle
    /\ SwitchCountry(newCountry)

SwitchNext ==
    \/ \E c \in CountryArgs : FirstConnect(c)
    \/ \E t \in BagToSet(tasks) : \E mintOk \in BOOLEAN :
           \E hc \in HealthChecks(config.regions[t.country]) :
               ProbesResolved(t, hc, mintOk)
    \/ \E t \in BagToSet(tasks) : \E resp \in HandshakeResponses : HandshakeReply(t, resp)
    \/ \E tm \in timers : \E mintOk \in BOOLEAN : TimerFire(tm, mintOk)
    \/ \E c \in CountryArgs : SwitchWhenConnected(c)
    \/ Tick

SwitchSpec == Init /\ [][SwitchNext]_vars

----------------------------------------------------------------------------
(* Claims *)

Healthy(checks) == { i \in 1..Len(checks) : checks[i].status = "healthy" }

\* the probe results in which no endpoint is healthy
NoneHealthy(checks) == Healthy(checks) = {}

\* the built-in configuration: token duration 300 s, refresh buffer 60 s
DefaultAuth == config.auth = [tokenDuration |-> 300, refreshBuffer |-> 60]

\* C1: when at least one probe result is healthy, getBestWorker returns the
\* healthy result of lowest latency, and among several of that latency the
\* one earliest in the region's endpoint order; [w1 timeout, w2 healthy 40 ms,
\* w3 healthy 120 ms] selects w2.
C1_LowestLatencyHealthy ==
    (selOut # NULL /\ ~NoneHealthy(selIn)) =>
        /\ selOut.ok
        /\ \E i \in Healthy(selIn) :
              /\ selOut.worker = selIn[i]
              /\ \A j \in Healthy(selIn) :
                    \/ selIn[i].latency < selIn[j].latency
                    \/ selIn[i].latency = selIn[j].latency /\ i <= j
        /\ (selIn = << [url |-> "w1", status |-> "timeout", latency |-> 5000],
                       [url |-> "w2", status |-> "healthy", latency |-> 40],
                       [url |-> "w3", status |-> "healthy", latency |-> 120] >>
               => selOut.worker.url = "w2")

\* C1 witness: a selection made among three results of which the second and
\* third are healthy with the same, lowest latency, and the first is slower
C1_TieSelected ==
    /\ selOut # NULL
    /\ Len(selIn) = 3
    /\ selIn[1].status = "healthy" /\ selIn[1].latency = 120
    /\ selIn[2].status = "healthy" /\ selIn[2].latency = 40
    /\ selIn[3].status = "healthy" /\ selIn[3].latency = 40
    /\ selOut.worker.url = "w2"

\* the connect() the last step settled got its probe results
SettledAfterProbes == settled # NULL /\ settled.checks # <<>>

\* the client state is the one the last step started from
ClientFrame ==
    /\ currentSession = settled.before.session
    /\ sessionToken = settled.before.token
    /\ tokenExpiry = settled.before.expiry
    /\ tokenRefreshTimeout = settled.before.handle
    /\ timers = settled.before.timers

\* C2: when no probe of the region is healthy (or the region has no
\* endpoint), selection fails with NoHealthyEndpoint, and the connect() that
\* ran it mints no token and sends no POST /connect: no handshake is in
\* flight for a call whose probes found no healthy endpoint.
C2_NoHealthyNoHandshake ==
    /\ \A t \in BagToSet(tasks) :
          t.pc = "handshake" => ~NoneHealthy(t.checks)
    /\ (SettledAfterProbes /\ NoneHealthy(settled.checks)) =>
          /\ settled.result = "NoHealthyEndpoint"
          /\ settled.resp = "none"
          /\ sessionToken = settled.before.token
          /\ tokenExpiry = settled.before.expiry
          /\ BagCardinality(tasks) = settled.before.inflight - 1
    /\ (settled # NULL /\ settled.country \in DOMAIN config.regions
          /\ config.regions[settled.country] = <<>>) =>
          /\ settled.result = "NoHealthyEndpoint"
          /\ settled.resp = "none"
          /\ sessionToken = settled.before.token
          /\ BagCardinality(tasks) = settled.before.inflight

\* C2 witness: a connect() has just failed with NoHealthyEndpoint after its
\* probes were answered, none healthy; no token is held, no handshake pending
C2_FailedWithoutToken ==
    /\ SettledAfterProbes
    /\ NoneHealthy(settled.checks)
    /\ settled.result = "NoHealthyEndpoint"
    /\ sessionToken = NULL
    /\ tasks = EmptyBag

\* a top-level operation of the manager begins in this step
OperationBegins ==
    \/ \E c \in CountryArgs : Connect(c)
    \/ \E c \in CountryArgs : SwitchCountry(c)
    \/ Disconnect
    \/ \E mintOk \in BOOLEAN : RefreshToken(mintOk)
    \/ \E tm \in timers : \E mintOk \in BOOLEAN : TimerFire(tm, mintOk)

\* C3: connect, disconnect, switchRegion and refreshToken are serialized: an
\* operation begins only when no connect() is in flight, so at most one
\* top-level transition is in progress.
C3_Serialized ==
    [][ OperationBegins => tasks = EmptyBag ]_vars

\* C4: disconnect() cancels the RefreshTimer and clears the Session, and a
\* connect() that was in flight when disconnect() ran discards its result
\* when it completes: it sets no Session and arms no RefreshTimer.
C4_StaleConnectDiscarded ==
    [][ /\ Disconnect => (currentSession' = NULL /\ timers' = {})
        /\ \A t \in BagToSet(tasks) : \A resp \in HandshakeResponses :
              (HandshakeReply(t, resp) /\ t.superseded) =>
                  UNCHANGED <<currentSession, timers>>
      ]_vars

\* refreshToken() mints a token in this step
RefreshSucceeds ==
    /\ currentSession # NULL
    /\ \/ RefreshToken(TRUE)
       \/ \E tm \in timers : TimerFire(tm, TRUE)

\* the stored handle names a pending timer
TimerArmed == \E tm \in timers : tm.id = tokenRefreshTimeout

\* C5: at most one RefreshTimer callback is pending; every successful
\* connect and every successful refresh re-arms it, and disconnect cancels it.
C5_SingleTimerRearmed ==
    [][ /\ Cardinality(timers') <= 1
        /\ (\E t \in BagToSet(tasks) : HandshakeReply(t, "ok200")) => TimerArmed'
        /\ RefreshSucceeds => TimerArmed'
        /\ Disconnect => timers' = {}
      ]_vars

\* C6: when the handshake gets a non-success answer (non-200 status,
\* network error, undecodable body), connect() fails with HandshakeFailed to
\* its caller, makes no further probe or handshake attempt, and sets no
\* Session and arms no RefreshTimer: a manager that was Disconnected is
\* Disconnected again.
C6_HandshakeFailed ==
    (settled # NULL /\ settled.resp \in HandshakeResponses \ {"ok200"}) =>
        /\ settled.result = "HandshakeFailed"
        /\ currentSession = settled.before.session
        /\ timers = settled.before.timers
        /\ tokenRefreshTimeout = settled.before.handle
        /\ BagCardinality(tasks) = settled.before.inflight - 1
        /\ (settled.before.session = NULL /\ settled.before.timers = {})
               => (currentSession = NULL /\ timers = {})

\* C6 witness: a connect() called by a client has just failed with
\* HandshakeFailed on a non-200 answer, and the manager is Disconnected with
\* nothing in flight
C6_FailedDisconnected ==
    /\ settled # NULL
    /\ settled.resp = "non200"
    /\ settled.result = "HandshakeFailed"
    /\ settled.origin = "caller"
    /\ currentSession = NULL
    /\ timers = {}
    /\ tasks = EmptyBag

\* C7: a connect(region) whose selection fails with NoHealthyEndpoint fails
\* to its caller and changes nothing: Session, token, token expiry and
\* RefreshTimer are as before, so a Disconnected manager stays Disconnected.
C7_SelectionFailureFrame ==
    (settled # NULL /\ (settled.result = "NoHealthyEndpoint"
                         \/ (SettledAfterProbes /\ NoneHealthy(settled.checks)))) =>
        /\ settled.result = "NoHealthyEndpoint"
        /\ ClientFrame
        /\ settled.before.session = NULL => currentSession = NULL

\* C7 witness: a client's connect() has just failed at selection, its probes
\* answered, while the manager is Disconnected with no token, expiry or timer
C7_FailedStillDisconnected ==
    /\ SettledAfterProbes
    /\ settled.result = "NoHealthyEndpoint"
    /\ settled.origin = "caller"
    /\ settled.before.session = NULL
    /\ currentSession = NULL
    /\ sessionToken = NULL
    /\ tokenExpiry = NULL
    /\ timers = {}
    /\ tokenRefreshTimeout = 0

C9_InvalidScheduleWindow ==
    [][ \A t \in BagToSet(tasks) :
           (HandshakeReply(t, "ok200") /\ RefreshTime(tokenExpiry, now, config) <= 0) =>
               /\ settled'.result = "InvalidScheduleWindow"
               /\ currentSession' = currentSession
      ]_vars

\* the recovery connect() of the timer callback fails in this step
RecoveryFails ==
    /\ settled' # NULL
    /\ settled'.origin = "timer"
    /\ settled'.result # "ok"

\* C10: when minting fails in a timer-driven refreshToken(), one
\* connect(currentRegion) is attempted; when that fails too, the Session is
\* torn down, no RefreshTimer is armed and SessionLost is surfaced.
C10_RecoveryThenSessionLost ==
    [][ /\ \A tm \in timers :
              (TimerFire(tm, FALSE) /\ currentSession # NULL) =>
                  \/ tasks' = Add(tasks, NewTask(currentSession.country, "timer"))
                  \/ RecoveryFails
        /\ RecoveryFails =>
              /\ currentSession' = NULL
              /\ timers' = {}
              /\ settled'.result = "SessionLost"
      ]_vars

\* a connect() called by a client (directly or by switchCountry) is in flight
ManualInFlight == \E t \in BagToSet(tasks) : t.origin = "caller"

\* the callback of the RefreshTimer runs in this step with a Session held:
\* refreshToken(), and on a failed mint the recovery connect()
TimerRefreshRuns ==
    /\ currentSession # NULL
    /\ \E tm \in timers : \E mintOk \in BOOLEAN : TimerFire(tm, mintOk)

\* C11: a firing of the RefreshTimer queues behind the manual operation in
\* flight: the refresh and its recovery reconnect never run while a connect()
\* a client called is still in progress.
C11_TimerQueuesBehindManual ==
    [][ TimerRefreshRuns => ~ManualInFlight ]_vars

\* the client state is one that disconnect() leaves as it is
DisconnectFixpoint ==
    /\ currentSession = NULL
    /\ ClearTimeout(timers, tokenRefreshTimeout) = timers

\* C12: disconnect() is idempotent: from any state it raises no error and
\* leaves a state that a further disconnect() does not change, with no
\* Session, no token or expiry and no armed RefreshTimer; with no Session
\* held it changes nothing.
C12_DisconnectIdempotent ==
    [][ Disconnect =>
          /\ alive'
          /\ DisconnectFixpoint'
          /\ currentSession' = NULL
          /\ sessionToken' = NULL
          /\ tokenExpiry' = NULL
          /\ timers' = {}
          /\ (currentSession = NULL /\ timers = {}) => UNCHANGED clientVars
      ]_vars

\* the last step was a switchCountry whose connect() is now in flight
Switching == settled # NULL /\ settled.result = "Switching"

\* C13: switchCountry(B) called with a Session to A held does one disconnect
\* of A and then one connect to B: A's Session, token and RefreshTimer were
\* cleared when connect(B) was called and still are, exactly one connect(B)
\* has begun and it began after the disconnect (the other calls in flight
\* are those the disconnect found), and nothing else was started.
C13_SwitchDisconnectsThenConnects ==
    (Switching /\ settled.hadSession) =>
        /\ settled.before.session = NULL
        /\ settled.before.token = NULL
        /\ settled.before.timers = {}
        /\ currentSession = NULL
        /\ sessionToken = NULL
        /\ tokenExpiry = NULL
        /\ timers = {}
        /\ CopiesIn(NewTask(settled.country, "caller"), tasks) = 1
        /\ \A t \in BagToSet(tasks) :
               t # NewTask(settled.country, "caller") => t.superseded
        /\ BagCardinality(tasks) = settled.before.inflight + 1

\* C13 witness: a switch to EU from a Session with US has just run: no
\* Session, token or timer is left and one connect to EU is probing
C13_SwitchedToEU ==
    /\ Switching
    /\ settled.hadSession
    /\ settled.country = "EU"
    /\ currentSession = NULL
    /\ timers = {}
    /\ tasks = SetToBag({NewTask("EU", "caller")})

\* the last step was a refreshToken() call of a client
RefreshSettled ==
    /\ settled # NULL
    /\ settled.result \in {"RefreshNoop", "Refreshed", "RefreshMintFailed"}

\* C14: refreshToken() called with no Session held returns without error and
\* does nothing: no token is minted, and token, token expiry and
\* RefreshTimer are as before.
C14_RefreshWithoutSessionNoop ==
    (RefreshSettled /\ settled.before.session = NULL) =>
        /\ settled.result = "RefreshNoop"
        /\ alive
        /\ ClientFrame
        /\ BagCardinality(tasks) = settled.before.inflight

\* C14 witness: refreshToken() has just returned with no Session held while
\* the token of a failed connect() is stored, and has left it alone
C14_NoopKeepsStoredToken ==
    /\ RefreshSettled
    /\ settled.result = "RefreshNoop"
    /\ currentSession = NULL
    /\ sessionToken # NULL
    /\ sessionToken = settled.before.token

\* C15: refreshToken() with a Session held mints a token for the Session's
\* region and endpoint, sends no probe and no handshake, replaces the held
\* token and expiry (expiry = now + token duration), re-arms the
\* RefreshTimer, and leaves the Session as it was.
C15_RefreshInPlace ==
    (RefreshSettled /\ settled.result = "Refreshed") =>
        /\ settled.before.session # NULL
        /\ currentSession = settled.before.session
        /\ sessionToken.payload.country = currentSession.country
        /\ sessionToken.payload.workerId = currentSession.worker.url
        /\ sessionToken.payload.issued = now
        /\ tokenExpiry = [ms |-> now + config.auth.tokenDuration * 1000]
        /\ BagCardinality(tasks) = settled.before.inflight
        /\ TimerArmed
        /\ timers = {[id |-> tokenRefreshTimeout,
                      fireAt |-> tokenExpiry.ms - config.auth.refreshBuffer * 1000]}

\* probe i has resolved its promise
ProbeResolved(i) == probes[i].result # NULL

\* C16: a HealthProbe never rejects and resolves exactly one result at most
\* the timeout after it was started, whatever the remote does: no response,
\* a connection error, headers and a body that never completes, a response
\* after the timeout.
C16_ProbeResolvesWithinTimeout ==
    \A i \in DOMAIN probes :
        /\ ProbeResolved(i) => probes[i].resolvedAt <= ProbeTimeoutMs
        /\ now > ProbeTimeoutMs => ProbeResolved(i)

\* C17: a probe classifies what it saw: 200 with a parseable body before the
\* timeout is healthy, with the measured latency and the parsed payload; any
\* other status is error; a malformed body is invalid; a connection error is
\* error; the timeout elapsing is timeout, with the timeout as latency.
C17_ProbeClassification ==
    [][ \A i \in DOMAIN probes :
          /\ \A parses \in BOOLEAN :
                (ProbeEnd(i, parses) /\ ~ProbeResolved(i)) =>
                    /\ probes'[i].result.status =
                           (IF probes[i].statusCode # 200 THEN "error"
                            ELSE IF parses THEN "healthy" ELSE "invalid")
                    /\ probes'[i].result.latency = probes[i].latency
                    /\ probes'[i].result.status = "healthy" =>
                           probes'[i].result.data = "parsed"
          /\ (ProbeError(i) /\ ~ProbeResolved(i)) =>
                 probes'[i].result.status = "error"
          /\ (ProbeTimeout(i) /\ ~ProbeResolved(i)) =>
                 /\ probes'[i].result.status = "timeout"
                 /\ probes'[i].result.latency = ProbeTimeoutMs
    ]_vars

\* C18: the selector probes every endpoint of the region at once and selects
\* only when every probe has resolved, never on the first healthy result; an
\* endpoint that does not respond holds the selection up for its probe's
\* timeout at most.
C18_SelectsAfterAllProbes ==
    /\ \A i \in DOMAIN probes : probes[i].url = WorkerUrl(i)
    /\ selOut # NULL =>
           /\ \A i \in DOMAIN probes : ProbeResolved(i)
           /\ selIn = [i \in DOMAIN probes |-> probes[i].result]
           /\ selOut = getBestWorker(selIn)
    /\ (\A i \in DOMAIN probes : ProbeResolved(i)) => selOut # NULL
    /\ (/\ now > ProbeTimeoutMs
        /\ \A i \in DOMAIN probes : probes[i].phase # "headers") => selOut # NULL

\* C18 witness: the first endpoint answered healthy at once, the second never
\* responded, and the selection was made when its probe timed out
C18_SelectedAtTimeout ==
    /\ Len(probes) = 2
    /\ ProbeResolved(1) /\ probes[1].result.status = "healthy"
    /\ probes[1].resolvedAt = 0
    /\ ProbeResolved(2) /\ probes[2].result.status = "timeout"
    /\ probes[2].phase = "sent"
    /\ now = ProbeTimeoutMs
    /\ selOut = [ok |-> TRUE, worker |-> probes[1].result]

\* connect() call t awaits the answer to the POST /connect that carried the
\* stored token
AwaitsHandshakeOfStoredToken(t) ==
    /\ t.pc = "handshake"
    /\ sessionToken # NULL
    /\ sessionToken.payload.sessionId = t.sessionId

\* C19: probes and handshake each run under a configured timeout, so a
\* connect() ends within the probe timeout plus the handshake timeout, also
\* when the endpoint never answers the handshake: no connect() is still
\* awaiting its handshake a clock step (far more than both timeouts) after it
\* minted the token it sent.
C19_ConnectEndsWithinTimeouts ==
    \A t \in BagToSet(tasks) :
        AwaitsHandshakeOfStoredToken(t) => now - sessionToken.payload.issued < TickMs

\* the relay has validated the token at the time it was minted, against the
\* session id of the token's own payload
ValidatedAtOnce ==
    /\ relay # NULL
    /\ relay.form = "generated"
    /\ relay.variant \in {"deno", "worker"}
    /\ relay.at = wire.payload.issued
    /\ relay.sessionId = wire.payload.sessionId

\* C20: a token that generateSessionToken produced, validated at once with
\* the session id of its own payload, is accepted by validateToken of each
\* relay variant, and the payload returned carries the token's region and
\* session id.
C20_GeneratedTokenAccepted ==
    ValidatedAtOnce =>
        /\ relay.returned # Refused
        /\ relay.returned.country = wire.payload.country
        /\ relay.returned.sessionId = wire.payload.sessionId

\* the recovery connect() of the timer callback has just failed
RecoveryFailed ==
    /\ settled # NULL
    /\ settled.origin = "timer"
    /\ settled.result # "ok"

\* the recovery connect() calls in flight
RecoveryCalls == { t \in BagToSet(tasks) : t.origin = "timer" }

\* C26: nothing is retried automatically but the one reconnect after a failed
\* timer refresh, and that does not loop: a failed refresh starts at most one
\* connect(), and when that connect() fails, no connect, probe or refresh is
\* started and no timer is armed.
C26_RecoveryDoesNotLoop ==
    /\ RecoveryFailed =>
           /\ BagCardinality(tasks) = settled.before.inflight - 1
           /\ currentSession = settled.before.session
           /\ tokenRefreshTimeout = settled.before.handle
           /\ timers = settled.before.timers
    /\ \A t \in RecoveryCalls : CopiesIn(t, tasks) <= now \div TickMs
    /\ (settled # NULL /\ settled.result \notin {"ok", "Switching", "Refreshed",
                                                 "RefreshNoop", "RefreshMintFailed"}) =>
           /\ BagCardinality(tasks) <= settled.before.inflight
           /\ timers = settled.before.timers

\* C26 witness: the refresh of the timer failed, the one reconnect it started
\* failed at its handshake, and nothing is in flight and no timer is pending
C26_RecoveryGaveUp ==
    /\ RecoveryFailed
    /\ settled.result = "HandshakeFailed"
    /\ currentSession # NULL
    /\ tasks = EmptyBag
    /\ timers = {}

\* C29: with refresh buffer < token duration and no refresh failure, while a
\* Session is held the token is replaced before it expires: the token held
\* has not expired, and a refresh is scheduled before its expiry (here: in
\* the state a successful connect() leaves).
C29_RefreshedBeforeExpiry ==
    (/\ settled # NULL
     /\ settled.result = "ok"
     /\ config.auth.refreshBuffer < config.auth.tokenDuration) =>
        /\ currentSession # NULL
        /\ now < tokenExpiry.ms
        /\ \E tm \in timers : tm.id = tokenRefreshTimeout /\ tm.fireAt < tokenExpiry.ms

\* C30: whenever a Session is held, the session id in the held token is the
\* Session's session id, the one sent in the handshake.
C30_TokenCarriesSessionId ==
    currentSession # NULL =>
        /\ sessionToken # NULL
        /\ sessionToken.payload.sessionId = currentSession.sessionId

\* the calls ts without the mark of a disconnect()
Unmarked(ts) ==
    [ t \in { [u EXCEPT !.superseded = FALSE] : u \in BagToSet(ts) } |->
          CopiesIn(t, ts) + CopiesIn([t EXCEPT !.superseded = TRUE], ts) ]

\* no Session is held and no RefreshTimer is armed
Disconnected == currentSession = NULL /\ timers = {}

\* C27: switchCountry(R) called while Disconnected does what connect(R) does:
\* the manager's Session, token, expiry and timer are left as connect(R)
\* leaves them, the call fails at once with the error connect(R) fails with,
\* or is in flight as the connect(R) call is, with the same probes sent, to
\* be resumed by the same probe results and handshake answer.
C27_SwitchWhenDisconnectedIsConnect ==
    [][ \A c \in CountryArgs :
          (Disconnected /\ SwitchCountry(c)) =>
              /\ clientVars' = clientVars
              /\ alive' = alive
              /\ IF ThrowsAtOnce(c, config) # "no"
                 THEN /\ Unmarked(tasks') = Unmarked(tasks)
                      /\ settled'.result = ThrowsAtOnce(c, config)
                      /\ settled'.origin = "caller"
                      /\ settled'.country = c
                 ELSE /\ Unmarked(tasks') = Unmarked(Add(tasks, NewTask(c, "caller")))
                      /\ CopiesIn(NewTask(c, "caller"), tasks') = 1
    ]_vars

\* C27 witness: switchCountry("EU") was called with no Session held and the
\* token of a failed connect() stored; the token is still stored and one
\* connect to EU is probing
C27_SwitchedFromDisconnected ==
    /\ Switching
    /\ ~settled.hadSession
    /\ settled.country = "EU"
    /\ sessionToken # NULL
    /\ sessionToken = settled.before.token
    /\ currentSession = NULL
    /\ tasks = SetToBag({NewTask("EU", "caller")})

\* a relay has validated the token as generated, after its expiry
ValidatedLate ==
    /\ relay # NULL
    /\ relay.form = "generated"
    /\ relay.at > wire.payload.expires

\* C21: a well-formed token validated after its expiry fails with the outcome
\* Expired, which is not the outcome of a malformed token: what validateToken
\* returns for it differs from what it returns for the same token without
\* its third segment.
C21_ExpiredIsNotMalformed ==
    ValidatedLate =>
        relay.returned # validateTokenOf(relay.variant, TokenAs("twoSegments", wire.token),
                                         relay.sessionId, relay.at)

\* C22: every token generated has expires > issued and expires = issued +
\* the configured token duration, for every configuration that is loaded.
C22_ExpiryIsIssuedPlusDuration ==
    wire # NULL =>
        /\ wire.payload.expires > wire.payload.issued
        /\ wire.payload.expires = wire.payload.issued + config.auth.tokenDuration * 1000

\* C28: validateToken returns the decoded payload exactly when the token has
\* three segments, its payload segment decodes, now <= payload.expires and
\* payload.sessionId is the expected id, and a failure value otherwise; every
\* relay variant decides the same.
C28_ValidateDecision ==
    relay # NULL =>
        /\ relay.returned =
              IF /\ relay.form = "generated"
                 /\ relay.at <= wire.payload.expires
                 /\ relay.sessionId = wire.payload.sessionId
              THEN wire.payload
              ELSE Refused
        /\ \A v \in RelayVariants :
              validateTokenOf(v, relay.token, relay.sessionId, relay.at) = relay.returned

\* what /proxy must establish before it forwards: the session is in the
\* table, has not expired, and the token validates for it
ProxyAuthorized ==
    /\ relay.sessionId \in DOMAIN relay.sessions
    /\ ~Expired(relay.at, relay.sessions[relay.sessionId])
    /\ validateTokenAt(server.variant, relay.token, relay.sessionId, relay.at) # Refused

\* C23: a relay forwards a /proxy request only when the session is in its
\* table, is unexpired and the token validates for it; otherwise it answers
\* 401, and it answers 400 for a missing target only after those checks.
C23_ProxyChecksSession ==
    (relay # NULL /\ "op" \in DOMAIN relay /\ relay.op = "proxy") =>
        /\ relay.forwarded => ProxyAuthorized
        /\ ~ProxyAuthorized => relay.status = 401
        /\ relay.status = 400 => ProxyAuthorized

\* what POST /connect must establish before it answers 200
ConnectAccepted(action) ==
    /\ action = "connect"
    /\ relay.token # <<>>
    /\ relay.sessionId # <<>>
    /\ validateTokenAt(server.variant, relay.token, relay.sessionId, relay.at) # Refused

\* C24: POST /connect is answered 200 exactly when the token validates for
\* the session id sent with it, and the session table gains an entry keyed by
\* that id, expiring when the token does, exactly when the answer is 200.
C24_ConnectStoresIffAccepted ==
    (relay # NULL /\ "op" \in DOMAIN relay /\ relay.op = "connect") =>
        /\ relay.status = 200 <=> ConnectAccepted(relay.action)
        /\ relay.status # 200 => server.activeSessions = relay.sessions
        /\ relay.status = 200 =>
               /\ relay.sessionId \in DOMAIN server.activeSessions
               /\ server.activeSessions[relay.sessionId].expires
                      = validateTokenAt(server.variant, relay.token, relay.sessionId, relay.at).expires

\* the iterations of a finished benchmark whose connect succeeded
BenchSuccesses ==
    { k \in 1..Len(bench.results) : bench.results[k].success }

\* C25: a benchmark of N iterations reports the success rate
\* (iterations whose connect succeeded) / N, and means taken over the
\* successful iterations only.
C25_BenchmarkReport ==
    (bench # NULL /\ bench.done) =>
        /\ bench.report # NULL
        /\ bench.report.successes = Cardinality(BenchSuccesses)
        /\ bench.report.iterations = bench.iterations
        /\ bench.report.avgConnection[2] = Cardinality(BenchSuccesses)
        /\ bench.report.avgRequest[2] = Cardinality(BenchSuccesses)

\* C31: whenever no operation is in flight, a token and its expiry are held
\* exactly when a Session is held; none is kept while Disconnected, not even
\* after a connect() that failed at the handshake.
C31_TokenOnlyWithSession ==
    Idle => /\ (sessionToken # NULL) <=> (currentSession # NULL)
            /\ (tokenExpiry # NULL) <=> (currentSession # NULL)

\* C32: a pending refresh timer implies that a Session is held.
C32_TimerImpliesSession ==
    timers # {} => currentSession # NULL

\* a refresh timer is pending with a Session held, and the stored handle is its
C32_TimerPendingWithSession ==
    /\ timers # {}
    /\ currentSession # NULL
    /\ tokenRefreshTimeout \in { tm.id : tm \in timers }

\* C33: a Session is stored only in the step in which the answer 200 to the
\* handshake of a connect() call arrives, for the session id that call minted
\* after it selected its endpoint; the timer armed in that step is armed
\* for the Session stored.  So every Session held was acknowledged.
C33_SessionAfterAcknowledgement ==
    [][(currentSession' # currentSession /\ currentSession' # NULL) =>
          /\ \E t \in BagToSet(tasks) :
                /\ t.pc = "handshake"
                /\ t.worker # NULL
                /\ t.sessionId # 0
                /\ currentSession'.sessionId = t.sessionId
                /\ currentSession'.worker = t.worker
                /\ currentSession'.country = t.country
                /\ tasks' = Remove(tasks, t)
          /\ settled' # NULL
          /\ settled'.result = "ok"
          /\ settled'.resp = "ok200"
          /\ \A tm \in timers' \ timers : tm.id = tokenRefreshTimeout']_vars

\* a Session has just been stored on the answer 200 to a handshake
C33_SessionStoredOn200 ==
    /\ settled # NULL
    /\ settled.result = "ok"
    /\ settled.resp = "ok200"
    /\ settled.before.session = NULL
    /\ currentSession # NULL
    /\ currentSession.sessionId # 0

\* the last request was a /proxy request for a session of the table whose
\* expiry, the one of the token of its handshake, had passed
ProxyAfterExpiry ==
    /\ relay # NULL
    /\ "op" \in DOMAIN relay
    /\ relay.op = "proxy"
    /\ relay.sessionId \in DOMAIN relay.sessions
    /\ Expired(relay.at, relay.sessions[relay.sessionId])

\* C34: a /proxy request for a session id that arrives after the expiry of
\* the token of that session's handshake is answered 401, and the entry is
\* removed from the session table.
C34_ExpiredSessionRejected ==
    ProxyAfterExpiry =>
        /\ relay.status = 401
        /\ ~relay.forwarded
        /\ relay.sessionId \notin DOMAIN server.activeSessions

\* C35: selection does not change the configuration: whatever getBestWorker
\* ends with, the region's endpoint list has the same elements in the same
\* order as before, and the other regions are as before.
C35_SelectionLeavesConfiguration ==
    [][config' = config]_vars

\* getBestWorker has chosen an endpoint that is not the first of its region,
\* so the order of its sorted array is not the order of the region
C35_SelectedOutOfOrder ==
    /\ selOut # NULL
    /\ selOut.ok
    /\ Len(config.regions["US"]) >= 2
    /\ Len(selIn) = Len(config.regions["US"])
    /\ selOut.worker.url # config.regions["US"][1]
    /\ \A i \in 1..Len(selIn) : config.regions["US"][i] = WorkerUrl(i)

\* the last step of the relay was a cleanup of its session table, alone or
\* as part of GET /health
CleanedUp ==
    /\ relay # NULL
    /\ "op" \in DOMAIN relay
    /\ relay.op \in {"health", "cleanup"}

\* C36: cleanupExpiredSessions removes exactly the entries with now > expires
\* and leaves every other entry as it was (an entry with now = expires is
\* kept); GET /health runs it, so the count it reports has no expired session.
C36_CleanupRemovesExactlyExpired ==
    CleanedUp =>
        /\ DOMAIN server.activeSessions =
               { k \in DOMAIN relay.sessions :
                     ~("expires" \in DOMAIN relay.sessions[k]
                           /\ relay.at > relay.sessions[k].expires) }
        /\ \A k \in DOMAIN server.activeSessions :
               server.activeSessions[k] = relay.sessions[k]
        /\ relay.op = "health" =>
               /\ relay.activeSessions = Cardinality(DOMAIN server.activeSessions)
               /\ relay.activeSessions =
                      Cardinality({ k \in DOMAIN relay.sessions :
                                        \/ "expires" \notin DOMAIN relay.sessions[k]
                                        \/ relay.at <= relay.sessions[k].expires })

\* GET /health has been answered at the very expiry of a session, which it
\* kept and counted
C36_KeptAtExpiry ==
    /\ CleanedUp
    /\ relay.op = "health"
    /\ relay.activeSessions >= 1
    /\ \E k \in DOMAIN server.activeSessions :
           /\ "expires" \in DOMAIN server.activeSessions[k]
           /\ server.activeSessions[k].expires = relay.at

\* a connect() call made by the caller, directly or through switchCountry,
\* has just failed, at the selection, the mint or the handshake
CallerConnectFailed ==
    /\ settled # NULL
    /\ settled.origin = "caller"
    /\ settled.result \in {"Unsupported", "NoHealthyEndpoint", "MintFailed", "HandshakeFailed"}

\* C37: when switchCountry(B) is called while connected to A, with no other
\* call in flight, and its connect(B) fails, the caller gets the error and
\* the manager is Disconnected: no Session is held, A's is not restored, and
\* no refresh timer is pending.
C37_FailedSwitchEndsDisconnected ==
    CallerConnectFailed =>
        /\ currentSession = NULL
        /\ timers = {}
        /\ settled.before.session = NULL
        /\ Idle

\* a switch made while connected has failed at the handshake: a timer had
\* been armed for the Session the switch dropped, and none is pending
C37_SwitchFailedAtHandshake ==
    /\ CallerConnectFailed
    /\ settled.result = "HandshakeFailed"
    /\ tokenRefreshTimeout # 0
    /\ currentSession = NULL
    /\ timers = {}

\* a connect(country) has just ended for a country the configuration lacks
UnsupportedSettled ==
    /\ settled # NULL
    /\ settled.country \in CountryArgs \ DOMAIN config.regions

\* C38: connect(region) for a region code that is not configured fails at
\* once, before a probe or a handshake is sent, and leaves Session, token,
\* token expiry and refresh timer as they were.
C38_UnsupportedRegionFailsAtOnce ==
    /\ \A t \in BagToSet(tasks) : t.country \in DOMAIN config.regions
    /\ UnsupportedSettled =>
          /\ settled.result = "Unsupported"
          /\ settled.checks = <<>>
          /\ settled.resp = "none"
          /\ ClientFrame
          /\ BagCardinality(tasks) = settled.before.inflight

\* connect("XX") has failed on a client that holds a Session and a pending
\* refresh timer, and both are still there
C38_UnsupportedWhileConnected ==
    /\ UnsupportedSettled
    /\ settled.result = "Unsupported"
    /\ settled.before.session # NULL
    /\ currentSession = settled.before.session
    /\ sessionToken # NULL
    /\ timers # {}

\* C39: once a health probe has resolved, with whatever status, its request
\* is no longer in flight and none of its callbacks can still run: the
\* response is complete or the request has failed, and its timer is cleared.
C39_ResolvedProbeIsFinished ==
    \A i \in DOMAIN probes :
        probes[i].result # NULL =>
            /\ probes[i].phase = "done"
            /\ ~probes[i].timeoutId

====
